---------------------------- MODULE Spec2Model ----------------------------
(***************************************************************************)
(* claude-mailer (src/index.ts): a CLI that sends an HTML e-mail over SMTP *)
(* and, for a quoted reply, first fetches the original over IMAP and       *)
(* splits its raw source into a plain and an HTML body.                    *)
(*                                                                         *)
(* Text is a sequence of tokens.  A token is a one-character string        *)
(* ("=", "\n", "<", ...) or a longer string that stands for that literal   *)
(* run of characters, which no other token overlaps ("--XYZ",              *)
(* "Content-Type: text/plain", ...).  An optional string (undefined in     *)
(* the source) is a sequence of length 0 or 1: <<>> is undefined, <<t>>    *)
(* is the text t.                                                          *)
(***************************************************************************)
EXTENDS Integers, Sequences, FiniteSets, TLC

VARIABLES
    qp,     \* one call of decodeQuotedPrintable: [text, result, done]
    th,     \* one call of isHtml/textToHtml:     [text, result, done]
    mime,   \* one decomposition of a raw source: [source, msg, done]
    pc,     \* main(): where the process is
    env,    \* process.env, key -> value ("" when not set)
    cli,    \* what the invocation was given: argv, stdin, the config file
    imap,   \* the ImapFlow client: [connected, lock, loggedOut]
    ops,    \* the network operations issued so far, in order
    fetch,  \* fetchMessageById's locals and its outcome
    opts,   \* main()'s quotedMessage, inReplyTo, references
    mail,   \* the mailOptions handed to transporter.sendMail, <<>> before
    out     \* what the process reported: [stderr, exit]

vars == <<qp, th, mime, pc, env, cli, imap, ops, fetch, opts, mail, out>>
mainVars == <<pc, env, cli, imap, ops, fetch, opts, mail, out>>

-----------------------------------------------------------------------------
(* Bounds of the model.                                                    *)

MaxQpLen == 5       \* longest text handed to decodeQuotedPrintable
MaxTextLen == 4     \* longest text handed to textToHtml
MaxBodyLen == 4     \* most items of the body block of a single-part source
MaxParts == 2       \* most top-level parts of a multipart source

-----------------------------------------------------------------------------
(* Strings.                                                                *)

CR == "\r"
LF == "\n"

\* All texts over alphabet A of length 0..n.
Texts(A, n) == UNION {[1..k -> A] : k \in 0..n}

\* text.startsWith(pat) at offset i (1-based).
MatchAt(text, i, pat) ==
    /\ i + Len(pat) - 1 <= Len(text)
    /\ \A k \in 1..Len(pat) : text[i + k - 1] = pat[k]

\* String.prototype.includes for a one-token needle.
Includes(text, tok) == \E i \in 1..Len(text) : text[i] = tok

\* The characters String.prototype.trim removes (those the model uses).
IsSpace(c) == c \in {" ", CR, LF, "\t"}

RECURSIVE TrimStart(_)
TrimStart(text) ==
    IF text # <<>> /\ IsSpace(Head(text)) THEN TrimStart(Tail(text)) ELSE text

RECURSIVE TrimEnd(_)
TrimEnd(text) ==
    IF text # <<>> /\ IsSpace(text[Len(text)])
    THEN TrimEnd(SubSeq(text, 1, Len(text) - 1))
    ELSE text

\* String.prototype.trim.
Trim(text) == TrimEnd(TrimStart(text))

-----------------------------------------------------------------------------
(* MIME utilities: decodeQuotedPrintable, src/index.ts:241-245.            *)

HexDigits == <<"0", "1", "2", "3", "4", "5", "6", "7", "8", "9",
               "A", "B", "C", "D", "E", "F">>
LowerHexDigits == <<"a", "b", "c", "d", "e", "f">>

\* [0-9A-F] under the i flag.
IsHexDigit(c) ==
    \/ \E k \in 1..16 : HexDigits[k] = c
    \/ \E k \in 1..6 : LowerHexDigits[k] = c

\* The value of one hex digit, as parseInt(hex, 16) reads it.
HexDigitValue(c) ==
    IF \E k \in 1..16 : HexDigits[k] = c
    THEN (CHOOSE k \in 1..16 : HexDigits[k] = c) - 1
    ELSE (CHOOSE k \in 1..6 : LowerHexDigits[k] = c) + 9

\* parseInt(hex, 16) of a two-digit hex string.
parseIntHex(h1, h2) == 16 * HexDigitValue(h1) + HexDigitValue(h2)

\* The printable ASCII characters, code 32 first (the grave accent, code 96,
\* cannot be written in a string here and is the token "\x96").
Ascii == <<" ", "!", "\"", "#", "$", "%", "&", "'", "(", ")", "*", "+", ",",
           "-", ".", "/", "0", "1", "2", "3", "4", "5", "6", "7", "8", "9",
           ":", ";", "<", "=", ">", "?", "@", "A", "B", "C", "D", "E", "F",
           "G", "H", "I", "J", "K", "L", "M", "N", "O", "P", "Q", "R", "S",
           "T", "U", "V", "W", "X", "Y", "Z", "[", "\\", "]", "^", "_", "\\x96",
           "a", "b", "c", "d", "e", "f", "g", "h", "i", "j", "k", "l", "m",
           "n", "o", "p", "q", "r", "s", "t", "u", "v", "w", "x", "y", "z",
           "{", "|", "}", "~">>

\* String.fromCharCode(n), n in 0..255: the character of that code.  A code
\* outside printable ASCII, CR, LF and TAB is the token "\x<n>".
fromCharCode(n) ==
    IF n \in 32..126 THEN Ascii[n - 31]
    ELSE IF n = 10 THEN LF
    ELSE IF n = 13 THEN CR
    ELSE IF n = 9 THEN "\t"
    ELSE "\\x" \o ToString(n)

RECURSIVE removeSoftBreaksLfOnly(_)
\* A slip of removeSoftBreaks: /=\n/g, the optional CR forgotten.
removeSoftBreaksLfOnly(text) ==
    IF text = <<>> THEN <<>>
    ELSE IF MatchAt(text, 1, <<"=", LF>>)
        THEN removeSoftBreaksLfOnly(SubSeq(text, 3, Len(text)))
    ELSE <<Head(text)>> \o removeSoftBreaksLfOnly(Tail(text))

RECURSIVE removeSoftBreaks(_)
\* text.replace(/=\r?\n/g, ""): left to right, every "=" directly followed by
\* LF or by CR LF goes, with that line ending.
removeSoftBreaks(text) ==
    IF text = <<>> THEN <<>>
    ELSE IF MatchAt(text, 1, <<"=", CR, LF>>)
        THEN removeSoftBreaks(SubSeq(text, 4, Len(text)))
    ELSE IF MatchAt(text, 1, <<"=", LF>>)
        THEN removeSoftBreaks(SubSeq(text, 3, Len(text)))
    ELSE <<Head(text)>> \o removeSoftBreaks(Tail(text))

RECURSIVE replaceHexEscapes(_)
\* text.replace(/=([0-9A-F]{2})/gi, (_, hex) => fromCharCode(parseInt(hex, 16))):
\* left to right, every "=" directly followed by two hex digits becomes one
\* character; the scan goes on after the match, so what a replacement
\* yields is not decoded again.
replaceHexEscapes(text) ==
    IF text = <<>> THEN <<>>
    ELSE IF /\ Len(text) >= 3
            /\ text[1] = "="
            /\ IsHexDigit(text[2])
            /\ IsHexDigit(text[3])
        THEN <<fromCharCode(parseIntHex(text[2], text[3]))>>
                 \o replaceHexEscapes(SubSeq(text, 4, Len(text)))
    ELSE <<Head(text)>> \o replaceHexEscapes(Tail(text))

\* The two replace calls, chained: soft breaks first, escapes in what is left.
decodeQuotedPrintable(text) == replaceHexEscapes(removeSoftBreaks(text))

-----------------------------------------------------------------------------
(* HTML utilities: escapeHtml, isHtml, textToHtml, src/index.ts:176-190.   *)

RECURSIVE ReplaceAll(_, _, _)
\* text.replace(/c/g, repl) for a one-character pattern c.
ReplaceAll(text, c, repl) ==
    IF text = <<>> THEN <<>>
    ELSE (IF Head(text) = c THEN repl ELSE <<Head(text)>>)
             \o ReplaceAll(Tail(text), c, repl)

Amp == <<"&", "a", "m", "p", ";">>
Lt == <<"&", "l", "t", ";">>
Gt == <<"&", "g", "t", ";">>
Quot == <<"&", "q", "u", "o", "t", ";">>
Br == <<"<", "b", "r", ">">>

\* A slip of escapeHtml: the ampersand escaped last, so that the entities
\* written for "<", ">" and the quote are escaped a second time.
escapeHtmlAmpLast(text) ==
    ReplaceAll(ReplaceAll(ReplaceAll(ReplaceAll(text,
        "<", Lt), ">", Gt), "\"", Quot), "&", Amp)

\* The four replace calls in the order of the source: "&" first.
escapeHtml(text) ==
    ReplaceAll(ReplaceAll(ReplaceAll(ReplaceAll(text,
        "&", Amp), "<", Lt), ">", Gt), "\"", Quot)

\* [a-z] under the i flag.
IsLetter(c) == \E k \in (34..59) \cup (66..91) : Ascii[k] = c

\* /<[a-z][\s\S]*>/i.test(text): a "<", a letter right behind it, and a ">"
\* anywhere after the letter.
isHtml(text) ==
    \E i \in 1..Len(text) :
        /\ text[i] = "<"
        /\ i + 1 <= Len(text)
        /\ IsLetter(text[i + 1])
        /\ \E k \in (i + 2)..Len(text) : text[k] = ">"

\* escapeHtml(text).replace(/\n/g, "<br>\n").
textToHtml(text) == ReplaceAll(escapeHtml(text), LF, Br \o <<LF>>)

-----------------------------------------------------------------------------
(* The decomposition of a raw source inside fetchMessageById,              *)
(* src/index.ts:292-337.                                                   *)

\* Tokens that stand for a literal run of characters of a source.
CtPlain == "Content-Type: text/plain"
CtHtml == "Content-Type: text/html"
CtMultipart == "Content-Type: multipart/alternative;"
CtOther == "Content-Type: application/pdf"
SubjectLine == "Subject: s"
\* A header parameter boundary="XYZ", and the run "--XYZ" the body is split on.
BoundaryOuter == "boundary=\"XYZ\""
BoundaryInner == "boundary=\"IN\""
DelimOuter == "--XYZ"
DelimInner == "--IN"

\* How many tokens /\r?\n\r?\n/ matches at the start of text (0: no match).
\* Each \r? is greedy and the pattern has no other choice to make.
BlankLineLen(text) ==
    IF MatchAt(text, 1, <<CR, LF, CR, LF>>) THEN 4
    ELSE IF MatchAt(text, 1, <<CR, LF, LF>>) THEN 3
    ELSE IF MatchAt(text, 1, <<LF, CR, LF>>) THEN 3
    ELSE IF MatchAt(text, 1, <<LF, LF>>) THEN 2
    ELSE 0

RECURSIVE splitBlankLinesFrom(_, _)
\* The pieces of cur \o text, cur being the piece under way.
splitBlankLinesFrom(text, cur) ==
    IF text = <<>> THEN <<cur>>
    ELSE IF BlankLineLen(text) > 0
        THEN <<cur>> \o splitBlankLinesFrom(
                 SubSeq(text, BlankLineLen(text) + 1, Len(text)), <<>>)
    ELSE splitBlankLinesFrom(Tail(text), Append(cur, Head(text)))

\* text.split(/\r?\n\r?\n/).
splitBlankLines(text) == splitBlankLinesFrom(text, <<>>)

RECURSIVE joinLfLf(_)
\* pieces.join("\n\n").
joinLfLf(pieces) ==
    IF pieces = <<>> THEN <<>>
    ELSE IF Len(pieces) = 1 THEN pieces[1]
    ELSE pieces[1] \o <<LF, LF>> \o joinLfLf(Tail(pieces))

\* text.split(/\r?\n\r?\n/).slice(1).join("\n\n"): lines 295, 311 and 315.
afterFirstBlankLine(text) == joinLfLf(Tail(splitBlankLines(text)))

RECURSIVE splitOnFrom(_, _, _)
splitOnFrom(text, tok, cur) ==
    IF text = <<>> THEN <<cur>>
    ELSE IF Head(text) = tok THEN <<cur>> \o splitOnFrom(Tail(text), tok, <<>>)
    ELSE splitOnFrom(Tail(text), tok, Append(cur, Head(text)))

\* rawBody.split(new RegExp(`--${escapedBoundary}`)): the boundary is escaped,
\* so the split is on the literal run, here one token.
splitOn(text, tok) == splitOnFrom(text, tok, <<>>)

\* The run "--<boundary>" for a boundary parameter token.
DelimiterOf(param) == IF param = BoundaryOuter THEN DelimOuter ELSE DelimInner

IsBoundaryParam(tok) == tok \in {BoundaryOuter, BoundaryInner}

\* headers.match(/boundary="?([^"\r\n]+)"?/i): the first boundary parameter
\* of the header block, as the run to split on; <<>> when there is none.
boundaryMatch(headers) ==
    IF \E i \in 1..Len(headers) : IsBoundaryParam(headers[i])
    THEN LET i == CHOOSE j \in 1..Len(headers) :
                      /\ IsBoundaryParam(headers[j])
                      /\ \A k \in 1..(j - 1) : ~IsBoundaryParam(headers[k])
         IN <<DelimiterOf(headers[i])>>
    ELSE <<>>

RECURSIVE scanParts(_, _, _)
\* for (const part of parts) { ... }, lines 309-318: a part that includes
\* "Content-Type: text/plain" anywhere assigns plainBody, else one that
\* includes "Content-Type: text/html" anywhere assigns htmlBody; each
\* assignment overwrites what an earlier part left.
scanParts(parts, plainBody, htmlBody) ==
    IF parts = <<>> THEN [plain |-> plainBody, html |-> htmlBody]
    ELSE IF Includes(Head(parts), CtPlain)
        THEN scanParts(Tail(parts),
                 decodeQuotedPrintable(afterFirstBlankLine(Head(parts))),
                 htmlBody)
    ELSE IF Includes(Head(parts), CtHtml)
        THEN scanParts(Tail(parts), plainBody,
                 decodeQuotedPrintable(afterFirstBlankLine(Head(parts))))
    ELSE scanParts(Tail(parts), plainBody, htmlBody)

\* Lines 293-323: plainBody and htmlBody of a raw source.
extractBodies(sourceText) ==
    LET headerBodySplit == splitBlankLines(sourceText)
        headers == headerBodySplit[1]
        rawBody == joinLfLf(Tail(headerBodySplit))
        boundary == boundaryMatch(headers)
    IN  IF boundary # <<>>
        THEN scanParts(splitOn(rawBody, boundary[1]), <<>>, <<>>)
        ELSE [plain |-> decodeQuotedPrintable(rawBody), html |-> <<>>]

\* Lines 334-335: body: plainBody.trim(), html: htmlBody.trim() || undefined.
parsedBodies(sourceText) ==
    LET b == extractBodies(sourceText)
    IN  [body |-> Trim(b.plain),
         html |-> IF Trim(b.html) = <<>> THEN <<>> ELSE <<Trim(b.html)>>]

-----------------------------------------------------------------------------
(* Optional values and truthiness.                                         *)

\* undefined, and a defined string.
None == <<>>
Some(text) == <<text>>

\* An optional string in a condition (if (x), x || y, !x): defined and not
\* the empty string.
Truthy(opt) == opt # <<>> /\ opt[1] # <<>>

-----------------------------------------------------------------------------
(* Configuration: loadConfig, getSmtpConfig, getImapConfig and the two     *)
(* validations, src/index.ts:75-116 and 154-170.                           *)

Keys == {"SMTP_USER", "SMTP_PASS", "IMAP_USER", "IMAP_PASS"}

RECURSIVE loadLines(_, _)
\* for (const line of content.split("\n")): a key is set from its line only
\* when process.env holds nothing for it by then.
loadLines(lines, e) ==
    IF lines = <<>> THEN e
    ELSE LET key == Head(lines).key
             value == Head(lines).value
         IN  loadLines(Tail(lines),
                 IF key # "" /\ value # "" /\ e[key] = ""
                 THEN [e EXCEPT ![key] = value]
                 ELSE e)

\* loadConfig: nothing is read once SMTP_USER is set; else the lines of the
\* file, if there is one.
loadConfig(e, file) ==
    IF e["SMTP_USER"] # "" THEN e
    ELSE IF file.exists THEN loadLines(file.lines, e)
    ELSE e

\* getSmtpConfig / getImapConfig: user and pass default to "".  Host, port
\* and security only parameterise the connection and are left out.
getSmtpConfig(e) == [user |-> e["SMTP_USER"], pass |-> e["SMTP_PASS"]]
getImapConfig(e) == [user |-> e["IMAP_USER"], pass |-> e["IMAP_PASS"]]

\* validateSmtpConfig / validateImapConfig pass (they exit the process with
\* status 1 when this is false).
validateSmtpConfig(e) == getSmtpConfig(e).user # "" /\ getSmtpConfig(e).pass # ""
validateImapConfig(e) == getImapConfig(e).user # "" /\ getImapConfig(e).pass # ""

-----------------------------------------------------------------------------
(* Quote formatting and document wrapping, src/index.ts:192-232.           *)

\* formatDate(msg.date): the rendered date is one token.
formatDate(date) == <<date>>

\* formatHtmlQuote: the attribution line and the cite block quote around
\* msg.html || textToHtml(msg.body).
formatHtmlQuote(msg) ==
    LET attribution == <<"On ">> \o formatDate(msg.date) \o <<", ">>
                           \o escapeHtml(msg.from) \o <<" wrote:">>
        quotedContent == IF Truthy(msg.html) THEN msg.html[1]
                         ELSE textToHtml(msg.body)
    IN  <<LF, "<div style=\"margin-top: 1em; color: #666;\">">> \o attribution
            \o <<"</div>", LF,
                 "<blockquote type=\"cite\" style=\"margin: 0.5em 0; padding-left: 1em; border-left: 2px solid #ccc;\">",
                 LF>>
            \o quotedContent \o <<LF, "</blockquote>">>

\* wrapInHtmlDocument: the fixed head and tail around bodyHtml.
wrapInHtmlDocument(bodyHtml) ==
    <<"<!DOCTYPE html>", LF, "<html>", LF, "<head>", LF,
      "  <meta charset=\"utf-8\">", LF, "</head>", LF,
      "<body style=\"font-family: -apple-system, BlinkMacSystemFont, 'Segoe UI', Roboto, sans-serif; font-size: 14px; line-height: 1.5; color: #333;\">",
      LF>>
        \o bodyHtml \o <<LF, "</body>", LF, "</html>">>

-----------------------------------------------------------------------------
(* sendEmail up to the call of the transport, src/index.ts:376-405.        *)

\* A slip of threadingHeaders: the two sides of References swapped.
threadingHeadersSwapped(options) ==
    IF Truthy(options.inReplyTo)
    THEN [inReplyTo |-> options.inReplyTo,
          references |->
              IF Truthy(options.references)
              THEN Some(options.inReplyTo[1] \o <<" ">> \o options.references[1])
              ELSE options.inReplyTo]
    ELSE [inReplyTo |-> None, references |-> None]

\* Lines 398-405: the threading headers of mailOptions.
threadingHeaders(options) ==
    IF Truthy(options.inReplyTo)
    THEN [inReplyTo |-> options.inReplyTo,
          references |->
              IF Truthy(options.references)
              THEN Some(options.references[1] \o <<" ">> \o options.inReplyTo[1])
              ELSE options.inReplyTo]
    ELSE [inReplyTo |-> None, references |-> None]

\* A slip of composeHtml: the quote block put before the user's input.
composeHtmlQuoteFirst(options) ==
    LET inputIsHtml == isHtml(options.body)
        bodyHtml == IF inputIsHtml THEN options.body
                    ELSE <<"<div>">> \o textToHtml(options.body) \o <<"</div>">>
        withQuote == IF options.quotedMessage # <<>>
                     THEN formatHtmlQuote(options.quotedMessage[1]) \o <<LF>> \o bodyHtml
                     ELSE bodyHtml
    IN  wrapInHtmlDocument(withQuote)

\* Lines 376-388: the HTML document for the body and the quoted message.
composeHtml(options) ==
    LET inputIsHtml == isHtml(options.body)
        bodyHtml == IF inputIsHtml THEN options.body
                    ELSE <<"<div>">> \o textToHtml(options.body) \o <<"</div>">>
        withQuote == IF options.quotedMessage # <<>>
                     THEN bodyHtml \o <<LF>> \o formatHtmlQuote(options.quotedMessage[1])
                     ELSE bodyHtml
    IN  wrapInHtmlDocument(withQuote)

\* Lines 391-405: mailOptions.
mailOptions(options, e) ==
    [from |-> getSmtpConfig(e).user,
     to |-> options.to,
     subject |-> options.subject,
     html |-> composeHtml(options),
     inReplyTo |-> threadingHeaders(options).inReplyTo,
     references |-> threadingHeaders(options).references]

-----------------------------------------------------------------------------
(* fetchMessageById's pure steps, src/index.ts:279 and 325-337.            *)

\* messageId.replace(/^<|>$/g, ""): a leading "<" and a trailing ">" go.
stripAngleBrackets(id) ==
    LET a == IF id # <<>> /\ Head(id) = "<" THEN Tail(id) ELSE id
    IN  IF a # <<>> /\ a[Len(a)] = ">" THEN SubSeq(a, 1, Len(a) - 1) ELSE a

\* `${addr.name || ""} <${addr.address}>`.trim(), or "Unknown".
formatAddress(addr) ==
    IF addr = <<>> THEN <<"Unknown">>
    ELSE Trim(addr[1].name \o <<" ", "<">> \o addr[1].address \o <<">">>)

\* Lines 328-337: the FetchedMessage of a fetched msg.
fetchedMessage(msg, messageId) ==
    [messageId |-> IF Truthy(msg.envelope.messageId)
                   THEN msg.envelope.messageId[1] ELSE messageId,
     from |-> formatAddress(msg.envelope.from),
     to |-> formatAddress(msg.envelope.to),
     subject |-> IF Truthy(msg.envelope.subject)
                 THEN msg.envelope.subject[1] ELSE <<"(no subject)">>,
     date |-> IF msg.envelope.date # "" THEN msg.envelope.date ELSE "now",
     body |-> parsedBodies(msg.source).body,
     html |-> parsedBodies(msg.source).html,
     references |-> msg.envelope.inReplyTo]

-----------------------------------------------------------------------------
(* The values of the parts of the state a specification does not use.      *)

NoCall == [text |-> <<>>, result |-> <<>>, done |-> TRUE]

NoMain ==
    /\ pc = "idle"
    /\ env = <<>>
    /\ cli = <<>>
    /\ imap = <<>>
    /\ ops = <<>>
    /\ fetch = <<>>
    /\ opts = <<>>
    /\ mail = <<>>
    /\ out = <<>>

-----------------------------------------------------------------------------
(* SpecQP: decodeQuotedPrintable applied once to any text over QpAlphabet. *)

\* "=", the line endings, hex digits in both cases, and a non-hex letter.
QpAlphabet == {"=", CR, LF, "3", "D", "d", "x"}

QpInit ==
    /\ qp \in [text : Texts(QpAlphabet, MaxQpLen), result : {<<>>}, done : {FALSE}]
    /\ th = NoCall
    /\ mime = NoCall
    /\ NoMain

QpCall ==
    /\ ~qp.done
    /\ qp' = [qp EXCEPT !.result = decodeQuotedPrintable(qp.text), !.done = TRUE]
    /\ UNCHANGED <<th, mime, mainVars>>

QpNext == QpCall

SpecQP == QpInit /\ [][QpNext]_vars

RECURSIVE qpOnePass(_)
\* The decoding in one pass over the input: at each place, an "=" with a
\* line ending behind it is dropped with the line ending, an "=" with two
\* hex digits behind it becomes the character, anything else is copied.
qpOnePass(text) ==
    IF text = <<>> THEN <<>>
    ELSE IF MatchAt(text, 1, <<"=", CR, LF>>)
        THEN qpOnePass(SubSeq(text, 4, Len(text)))
    ELSE IF MatchAt(text, 1, <<"=", LF>>)
        THEN qpOnePass(SubSeq(text, 3, Len(text)))
    ELSE IF Len(text) >= 3 /\ text[1] = "=" /\ IsHexDigit(text[2]) /\ IsHexDigit(text[3])
        THEN <<fromCharCode(parseIntHex(text[2], text[3]))>>
                 \o qpOnePass(SubSeq(text, 4, Len(text)))
    ELSE <<Head(text)>> \o qpOnePass(Tail(text))

\* A soft line break at offset i of text.
SoftBreakAt(text, i) ==
    MatchAt(text, i, <<"=", LF>>) \/ MatchAt(text, i, <<"=", CR, LF>>)

\* A soft line break stands inside what would otherwise start an escape:
\* right behind an "=", or behind an "=" and one hex digit.
SoftBreakInEscape(text) ==
    \E i \in 1..Len(text) :
        /\ text[i] = "="
        /\ \/ SoftBreakAt(text, i + 1)
           \/ i + 1 <= Len(text) /\ IsHexDigit(text[i + 1]) /\ SoftBreakAt(text, i + 2)

\* C8 as stated: the result is the input with every soft line break removed,
\* every =XX of the input replaced, and every other character of the input,
\* each "=" that starts neither included, passed through.
C8_OnePassDecoding == qp.done => qp.result = qpOnePass(qp.text)

\* C8, amended: the one-pass reading holds whenever no soft line break
\* stands inside an escape, and a text with no "=" comes back unchanged.
C8_DecodeContract ==
    qp.done =>
        /\ ~SoftBreakInEscape(qp.text) => qp.result = qpOnePass(qp.text)
        /\ ~Includes(qp.text, "=") => qp.result = qp.text

\* C8: a decoded text with a soft line break and a lower-case escape, the
\* break not inside the escape: the result is the one character "=".
C8_Witness ==
    /\ qp.done
    /\ ~SoftBreakInEscape(qp.text)
    /\ \E i \in 1..Len(qp.text) : SoftBreakAt(qp.text, i)
    /\ \E i \in 1..Len(qp.text) : MatchAt(qp.text, i, <<"=", "3", "d">>)
    /\ qp.result = <<"=">>

-----------------------------------------------------------------------------
(* SpecHtml: isHtml and textToHtml applied once to any text over           *)
(* HtmlAlphabet, as sendEmail applies them to its body (lines 377-380).    *)

\* The four characters escapeHtml rewrites, LF, two letters and ";".
HtmlAlphabet == {"&", "<", ">", "\"", LF, "l", "t", ";"}

HtmlInit ==
    /\ th \in [text : Texts(HtmlAlphabet, MaxTextLen), result : {<<>>},
               isHtml : {FALSE}, done : {FALSE}]
    /\ qp = NoCall
    /\ mime = NoCall
    /\ NoMain

HtmlCall ==
    /\ ~th.done
    /\ th' = [th EXCEPT !.isHtml = isHtml(th.text),
                        !.result = textToHtml(th.text),
                        !.done = TRUE]
    /\ UNCHANGED <<qp, mime, mainVars>>

HtmlNext == HtmlCall

SpecHtml == HtmlInit /\ [][HtmlNext]_vars

RECURSIVE RemoveAll(_, _)
\* text with every occurrence of pat taken out, left to right.
RemoveAll(text, pat) ==
    IF text = <<>> THEN <<>>
    ELSE IF MatchAt(text, 1, pat)
        THEN RemoveAll(SubSeq(text, Len(pat) + 1, Len(text)), pat)
    ELSE <<Head(text)>> \o RemoveAll(Tail(text), pat)

RECURSIVE ReplaceSeq(_, _, _)
\* text with every occurrence of pat replaced by the character c.
ReplaceSeq(text, pat, c) ==
    IF text = <<>> THEN <<>>
    ELSE IF MatchAt(text, 1, pat)
        THEN <<c>> \o ReplaceSeq(SubSeq(text, Len(pat) + 1, Len(text)), pat, c)
    ELSE <<Head(text)>> \o ReplaceSeq(Tail(text), pat, c)

\* The entities read back, "&amp;" last.
unescapeHtml(text) ==
    ReplaceSeq(ReplaceSeq(ReplaceSeq(ReplaceSeq(text,
        Quot, "\""), Gt, ">"), Lt, "<"), Amp, "&")

HasMetaChar(text) == \E i \in 1..Len(text) : text[i] \in {"&", "<", ">", "\""}

\* C9 as stated: for an input isHtml rejects, textToHtml's result without
\* the <br> tags it inserted is the input again.
C9_StripReproducesInput ==
    th.done /\ ~th.isHtml => RemoveAll(th.result, Br) = th.text

\* C9, amended: so it is when the input holds none of & < > and the double
\* quote; in every case the input comes back once the entities are read
\* back as well.
C9_RoundTrip ==
    th.done /\ ~th.isHtml =>
        /\ ~HasMetaChar(th.text) => RemoveAll(th.result, Br) = th.text
        /\ unescapeHtml(RemoveAll(th.result, Br)) = th.text

\* C9: a converted plain text with a line break, an ampersand and a lone "<".
C9_Witness ==
    /\ th.done
    /\ ~th.isHtml
    /\ Includes(th.text, LF)
    /\ Includes(th.text, "&")
    /\ Includes(th.text, "<")
    /\ th.result # th.text

-----------------------------------------------------------------------------
(* SpecMime: one raw source, decomposed once.  The source is either a      *)
(* multipart message of 1..MaxParts top-level parts under the boundary     *)
(* XYZ, with or without a preamble, written with LF or with CR LF line     *)
(* ends, or a single-part message whose body block is any 0..MaxBodyLen    *)
(* items of BodyItems.                                                     *)

PartKinds == {"plain", "html", "nested", "other"}

\* What a part may hold: a word, another word, an escape, and a text that
\* quotes a Content-Type line.
PartContents == {<<"a">>, <<"b">>, <<"=", "3", "D">>, <<"c", CtPlain>>}

\* The items of a single-part body block; "NL" is written as the line end
\* of the message.
BodyItems == {"NL", "t", "=", CtHtml}

RECURSIVE RenderItems(_, _)
RenderItems(items, nl) ==
    IF items = <<>> THEN <<>>
    ELSE (IF Head(items) = "NL" THEN nl ELSE <<Head(items)>>)
             \o RenderItems(Tail(items), nl)

\* A nested multipart/alternative part: its own boundary IN, a text/plain
\* and a text/html sub-part.
NestedContent(nl) ==
    <<DelimInner>> \o nl \o <<CtPlain>> \o nl \o nl \o <<"x">> \o nl
    \o <<DelimInner>> \o nl \o <<CtHtml>> \o nl \o nl \o <<"y">> \o nl
    \o <<DelimInner, "-", "-">>

\* The header line and the content of one top-level part.
PartHeader(part) ==
    CASE part.kind = "plain" -> <<CtPlain>>
      [] part.kind = "html" -> <<CtHtml>>
      [] part.kind = "nested" -> <<CtMultipart, " ", BoundaryInner>>
      [] OTHER -> <<CtOther>>

PartContent(part, nl) ==
    IF part.kind = "nested" THEN NestedContent(nl) ELSE part.content

RECURSIVE RenderParts(_, _)
RenderParts(parts, nl) ==
    IF parts = <<>> THEN <<DelimOuter, "-", "-">> \o nl
    ELSE <<DelimOuter>> \o nl \o PartHeader(Head(parts)) \o nl \o nl
             \o PartContent(Head(parts), nl) \o nl \o RenderParts(Tail(parts), nl)

\* The raw source of a multipart message with these top-level parts.
RenderMultipart(parts, nl) ==
    <<SubjectLine>> \o nl \o <<CtMultipart, " ", BoundaryOuter>> \o nl \o nl
        \o RenderParts(parts, nl)

\* A preamble: text before the first delimiter, with a blank line in it
\* and a line that reads like a Content-Type declaration after that.
Preamble(nl) == <<"c">> \o nl \o nl \o <<CtPlain>> \o nl

\* The raw source of a multipart message with a preamble.
RenderWithPreamble(parts, nl) ==
    <<SubjectLine>> \o nl \o <<CtMultipart, " ", BoundaryOuter>> \o nl \o nl
        \o Preamble(nl) \o RenderParts(parts, nl)

\* The raw source of a single-part message with this body block.
RenderSingle(block, nl) ==
    <<SubjectLine>> \o nl \o <<CtPlain>> \o nl \o nl \o RenderItems(block, nl)

Parts == [kind : PartKinds, content : PartContents]

MimeInputs ==
    {[kind |-> "multipart", nl |-> nl, parts |-> ps, block |-> <<>>,
      source |-> RenderMultipart(ps, nl), msg |-> <<>>, done |-> FALSE] :
        nl \in {<<LF>>, <<CR, LF>>},
        ps \in UNION {[1..n -> Parts] : n \in 1..MaxParts}}
    \cup
    {[kind |-> "preamble", nl |-> nl, parts |-> ps, block |-> <<>>,
      source |-> RenderWithPreamble(ps, nl), msg |-> <<>>, done |-> FALSE] :
        nl \in {<<LF>>, <<CR, LF>>},
        ps \in UNION {[1..n -> Parts] : n \in 1..MaxParts}}
    \cup
    {[kind |-> "single", nl |-> nl, parts |-> <<>>, block |-> b,
      source |-> RenderSingle(b, nl), msg |-> <<>>, done |-> FALSE] :
        nl \in {<<LF>>, <<CR, LF>>},
        b \in Texts(BodyItems, MaxBodyLen)}

MimeInit ==
    /\ mime \in MimeInputs
    /\ qp = NoCall
    /\ th = NoCall
    /\ NoMain

MimeParse ==
    /\ ~mime.done
    /\ mime' = [mime EXCEPT !.msg = parsedBodies(mime.source), !.done = TRUE]
    /\ UNCHANGED <<qp, th, mainVars>>

MimeNext == MimeParse

SpecMime == MimeInit /\ [][MimeNext]_vars

\* The top-level parts of this kind, in order.
PartsOfKind(parts, kind) == SelectSeq(parts, LAMBDA q : q.kind = kind)

\* C4: of several top-level parts of one declared type, the first one's
\* content is the body of that type and the later ones are ignored.
C4_FirstPartOfTypeKept ==
    mime.done /\ mime.kind = "multipart"
        /\ (\A i \in 1..Len(mime.parts) : mime.parts[i].kind \in {"plain", "html"})
        /\ (\A i \in 1..Len(mime.parts) : mime.parts[i].content \in {<<"a">>, <<"b">>})
    =>  /\ Len(PartsOfKind(mime.parts, "plain")) >= 2
            => mime.msg.body = PartsOfKind(mime.parts, "plain")[1].content
        /\ Len(PartsOfKind(mime.parts, "html")) >= 2
            => mime.msg.html = <<PartsOfKind(mime.parts, "html")[1].content>>

\* C5: a message whose top-level parts are all nested multiparts yields no
\* plain body and no HTML body.
C5_NestedMultipartIgnored ==
    mime.done /\ mime.kind = "multipart"
        /\ (\A i \in 1..Len(mime.parts) : mime.parts[i].kind = "nested")
    =>  mime.msg.body = <<>> /\ mime.msg.html = <<>>

\* C13: a part is classified by the Content-Type line of its own header
\* region only: of a message with at most one part declared text/plain and
\* at most one declared text/html (no nested multipart), body is the
\* content of the part declared text/plain and html that of the part
\* declared text/html, whatever the contents quote; a part declared
\* otherwise and a preamble populate neither.
C13_ClassifiedByOwnHeader ==
    mime.done /\ mime.kind \in {"multipart", "preamble"}
        /\ (\A i \in 1..Len(mime.parts) : mime.parts[i].kind # "nested")
        /\ Len(PartsOfKind(mime.parts, "plain")) <= 1
        /\ Len(PartsOfKind(mime.parts, "html")) <= 1
    =>  LET plain == PartsOfKind(mime.parts, "plain")
            html == PartsOfKind(mime.parts, "html")
        IN  /\ mime.msg.body =
                   IF plain = <<>> THEN <<>>
                   ELSE Trim(decodeQuotedPrintable(plain[1].content))
            /\ mime.msg.html =
                   IF html = <<>> THEN None
                   ELSE Some(Trim(decodeQuotedPrintable(html[1].content)))

\* The body block of a source: what follows its first blank line.
RECURSIVE BodyBlock(_)
BodyBlock(text) ==
    IF text = <<>> THEN <<>>
    ELSE IF BlankLineLen(text) > 0
        THEN SubSeq(text, BlankLineLen(text) + 1, Len(text))
    ELSE BodyBlock(Tail(text))

\* C10: with no boundary parameter in the header block, body is the body
\* block, quoted-printable-decoded and trimmed, and html is undefined.
C10_SinglePartFallback ==
    mime.done /\ mime.kind = "single"
    =>  /\ mime.msg.body = Trim(decodeQuotedPrintable(BodyBlock(mime.source)))
        /\ mime.msg.html = <<>>

-----------------------------------------------------------------------------
(* Spec: one invocation of the CLI, main() with fetchMessageById and       *)
(* sendEmail, src/index.ts:255-347, 357-411 and 435-514.  Every await of a *)
(* network operation is a step of its own; the store and the transport     *)
(* decide how each operation ends.                                         *)

\* Message-IDs.
IdQuote == <<"<", "q@x", ">">>
IdTyped == <<"<", "c@x", ">">>
IdParent == <<"<", "p@x", ">">>
RefsTyped == <<"<", "a@x", ">", " ", "<", "b@x", ">">>

\* The environment of the process: each key unset ("") or set.
Envs == [Keys -> {"", "env"}]

FileLines(keys) ==
    SelectSeq(<<[key |-> "SMTP_USER", value |-> "file"],
                [key |-> "SMTP_PASS", value |-> "file"],
                [key |-> "IMAP_USER", value |-> "file"],
                [key |-> "IMAP_PASS", value |-> "file"]>>,
              LAMBDA l : l.key \in keys)

\* ~/.config/claude-mailer/.env: missing, or holding all keys, the SMTP keys
\* or the IMAP keys.
Files ==
    {[exists |-> FALSE, lines |-> <<>>]}
    \cup {[exists |-> TRUE, lines |-> FileLines(ks)] :
            ks \in {Keys, {"SMTP_USER", "SMTP_PASS"}, {"IMAP_USER", "IMAP_PASS"}}}

\* stdin: a plain text of two lines with characters to escape, an HTML text.
Bodies == {<<"a", "<", LF, "&", LF>>, <<"<", "b", ">", "x">>}

\* Invocations that pass main()'s own checks of argv and stdin.
GoodInvocations ==
    [command : {"send", "reply"},
     positionals : {2},
     quoteMessageId : {None, Some(IdQuote)},
     inReplyTo : {None, Some(<<>>), Some(IdTyped)},
     references : {None, Some(<<>>), Some(RefsTyped)},
     stdin : Bodies]

\* Invocations that fail them: no or an unknown command, a missing
\* <to> or <subject>, an empty body.
BadInvocations ==
    {[command |-> c, positionals |-> 2, quoteMessageId |-> Some(IdQuote),
      inReplyTo |-> None, references |-> None, stdin |-> <<"h", "i">>] :
        c \in {"", "fetch"}}
    \cup {[command |-> "send", positionals |-> n, quoteMessageId |-> Some(IdQuote),
           inReplyTo |-> None, references |-> None, stdin |-> <<"h", "i">>] :
            n \in {0, 1}}
    \cup {[command |-> "reply", positionals |-> 2, quoteMessageId |-> Some(IdQuote),
           inReplyTo |-> None, references |-> None, stdin |-> b] :
            b \in {<<>>, <<" ", LF>>}}

\* What the store may answer to fetchOne: false, or a message.
Envelopes ==
    {[messageId |-> Some(IdQuote),
      from |-> Some([name |-> <<"N">>, address |-> <<"a@x">>]),
      to |-> Some([name |-> <<>>, address |-> <<"me@x">>]),
      subject |-> Some(<<"s">>), date |-> "date", inReplyTo |-> Some(IdParent)],
     [messageId |-> None, from |-> None, to |-> None,
      subject |-> None, date |-> "", inReplyTo |-> None]}

StoredSources ==
    {RenderSingle(<<"t">>, <<CR, LF>>),
     RenderSingle(<<>>, <<CR, LF>>),
     RenderMultipart(<<[kind |-> "plain", content |-> <<"a">>],
                       [kind |-> "html", content |-> <<"b">>]>>, <<CR, LF>>)}

StoredMessages == [envelope : Envelopes, source : StoredSources]

NoFetch ==
    [searchId |-> <<>>, search |-> "none", msg |-> <<>>,
     pending |-> "none", result |-> <<>>]

Init ==
    /\ qp = NoCall
    /\ th = NoCall
    /\ mime = NoCall
    /\ pc = "loadConfig"
    /\ env \in Envs
    /\ cli \in [inv : GoodInvocations \cup BadInvocations, file : Files]
    /\ imap = [connected |-> FALSE, lock |-> FALSE, loggedOut |-> FALSE]
    /\ ops = <<>>
    /\ fetch = NoFetch
    /\ opts = [quotedMessage |-> <<>>, inReplyTo |-> None, references |-> None]
    /\ mail = <<>>
    /\ out = [stderr |-> "", exit |-> -1]

\* process.exit(1) after console.error(what).
Exit1(what) ==
    /\ pc' = "exited"
    /\ out' = [stderr |-> what, exit |-> 1]

\* An operation issued on the network, and how it ended.
Issue(op, ok) == ops' = Append(ops, [op |-> op, ok |-> ok])

\* main(), line 436: await loadConfig().
MainLoadConfig ==
    /\ pc = "loadConfig"
    /\ env' = loadConfig(env, cli.file)
    /\ pc' = "args"
    /\ UNCHANGED <<qp, th, mime, cli, imap, ops, fetch, opts, mail, out>>

\* main(), lines 438-496 up to the call of fetchMessageById: the command,
\* the positionals, stdin, then the threading options as typed.
MainArgs ==
    /\ pc = "args"
    /\ IF cli.inv.command \notin {"send", "reply"} THEN
           Exit1("usage") /\ UNCHANGED opts
       ELSE IF cli.inv.positionals < 2 THEN
           Exit1("<to> and <subject> are required") /\ UNCHANGED opts
       ELSE IF Trim(cli.inv.stdin) = <<>> THEN
           Exit1("No email body provided via stdin") /\ UNCHANGED opts
       ELSE
           /\ opts' = [quotedMessage |-> <<>>,
                       inReplyTo |-> cli.inv.inReplyTo,
                       references |-> cli.inv.references]
           /\ pc' = IF Truthy(cli.inv.quoteMessageId) THEN "fetchMessageById"
                    ELSE "sendEmail"
           /\ UNCHANGED out
    /\ UNCHANGED <<qp, th, mime, env, cli, imap, ops, fetch, mail>>

\* fetchMessageById, lines 256-271: validateImapConfig, then the client.
FetchValidate ==
    /\ pc = "fetchMessageById"
    /\ IF validateImapConfig(env)
       THEN pc' = "connect" /\ UNCHANGED out
       ELSE Exit1("IMAP_USER and IMAP_PASS environment variables required")
    /\ UNCHANGED <<qp, th, mime, env, cli, imap, ops, fetch, opts, mail>>

\* Line 273: await client.connect().  A failure is thrown to main().catch.
FetchConnect ==
    /\ pc = "connect"
    /\ \E ok \in BOOLEAN :
        /\ Issue("connect", ok)
        /\ imap' = [imap EXCEPT !.connected = ok]
        /\ pc' = IF ok THEN "getMailboxLock" ELSE "catch"
    /\ UNCHANGED <<qp, th, mime, env, cli, fetch, opts, mail, out>>

\* Line 276: await client.getMailboxLock("INBOX"), before the try block: a
\* failure is thrown past the finally block.
FetchLock ==
    /\ pc = "getMailboxLock"
    /\ \E ok \in BOOLEAN :
        /\ Issue("getMailboxLock", ok)
        /\ imap' = [imap EXCEPT !.lock = ok]
        /\ pc' = IF ok THEN "search" ELSE "catch"
    /\ UNCHANGED <<qp, th, mime, env, cli, fetch, opts, mail, out>>

\* A slip of FetchSearch: the test uids.length === 0 forgotten, so that
\* fetchOne is issued for an empty answer as well.
FetchSearchNoEmptyCheck ==
    /\ pc = "search"
    /\ \E answer \in {"throws", "empty", "found"} :
        /\ Issue("search", answer # "throws")
        /\ fetch' = [fetch EXCEPT
               !.searchId = stripAngleBrackets(cli.inv.quoteMessageId[1]),
               !.search = answer,
               !.pending = IF answer = "throws" THEN "throw" ELSE "none"]
        /\ pc' = IF answer = "throws" THEN "finally" ELSE "fetchOne"
    /\ UNCHANGED <<qp, th, mime, env, cli, imap, opts, mail, out>>

\* Lines 279-287: the search for the stripped Message-ID.  It throws, finds
\* nothing (return null) or finds uids.
FetchSearch ==
    /\ pc = "search"
    /\ \E answer \in {"throws", "empty", "found"} :
        /\ Issue("search", answer # "throws")
        /\ fetch' = [fetch EXCEPT
               !.searchId = stripAngleBrackets(cli.inv.quoteMessageId[1]),
               !.search = answer,
               !.pending = CASE answer = "throws" -> "throw"
                             [] answer = "empty" -> "return"
                             [] OTHER -> "none"]
        /\ pc' = IF answer = "found" THEN "fetchOne" ELSE "finally"
    /\ UNCHANGED <<qp, th, mime, env, cli, imap, opts, mail, out>>

\* Lines 289-340: fetchOne(uids[0]) and the building of the result.
\* fetchOne throws, or answers false (msg.source then throws a TypeError),
\* or answers a message.
FetchOne ==
    /\ pc = "fetchOne"
    /\ \/ /\ Issue("fetchOne", FALSE)
          /\ fetch' = [fetch EXCEPT !.pending = "throw"]
       \/ /\ Issue("fetchOne", TRUE)
          /\ fetch' = [fetch EXCEPT !.pending = "throw"]
       \/ \E msg \in StoredMessages :
            /\ Issue("fetchOne", TRUE)
            /\ fetch' = [fetch EXCEPT
                   !.msg = <<msg>>,
                   !.pending = "return",
                   !.result = <<fetchedMessage(msg, cli.inv.quoteMessageId[1])>>]
    /\ pc' = "finally"
    /\ UNCHANGED <<qp, th, mime, env, cli, imap, opts, mail, out>>

\* A slip of FetchFinally: the session is ended before the lock is released.
FetchFinallyLogoutFirst ==
    /\ pc = "finally"
    /\ ops' = ops \o <<[op |-> "logout", ok |-> TRUE], [op |-> "release", ok |-> TRUE]>>
    /\ imap' = [imap EXCEPT !.lock = FALSE, !.loggedOut = TRUE]
    /\ pc' = IF fetch.pending = "throw" THEN "catch" ELSE "fetched"
    /\ UNCHANGED <<qp, th, mime, env, cli, fetch, opts, mail, out>>

\* Lines 342-346: lock.release(); await client.logout(); then the pending
\* return or throw takes effect.  release is synchronous and logout ends
\* the session whatever the server answers: neither throws here.
FetchFinally ==
    /\ pc = "finally"
    /\ ops' = ops \o <<[op |-> "release", ok |-> TRUE], [op |-> "logout", ok |-> TRUE]>>
    /\ imap' = [imap EXCEPT !.lock = FALSE, !.loggedOut = TRUE]
    /\ pc' = IF fetch.pending = "throw" THEN "catch" ELSE "fetched"
    /\ UNCHANGED <<qp, th, mime, env, cli, fetch, opts, mail, out>>

\* A slip of MainFetched: typed --in-reply-to and --references are kept
\* when they are given.
MainFetchedKeepTyped ==
    /\ pc = "fetched"
    /\ IF fetch.result = <<>>
       THEN Exit1("Could not find message") /\ UNCHANGED opts
       ELSE /\ opts' = [quotedMessage |-> fetch.result,
                        inReplyTo |-> IF Truthy(opts.inReplyTo) THEN opts.inReplyTo
                                      ELSE cli.inv.quoteMessageId,
                        references |-> IF Truthy(opts.references) THEN opts.references
                                       ELSE fetch.result[1].references]
            /\ pc' = "sendEmail"
            /\ UNCHANGED out
    /\ UNCHANGED <<qp, th, mime, env, cli, imap, ops, fetch, mail>>

\* main(), lines 488-496: not found is reported; else the quote and the
\* threading options come from the fetched message.
MainFetched ==
    /\ pc = "fetched"
    /\ IF fetch.result = <<>>
       THEN Exit1("Could not find message") /\ UNCHANGED opts
       ELSE /\ opts' = [quotedMessage |-> fetch.result,
                        inReplyTo |-> cli.inv.quoteMessageId,
                        references |-> fetch.result[1].references]
            /\ pc' = "sendEmail"
            /\ UNCHANGED out
    /\ UNCHANGED <<qp, th, mime, env, cli, imap, ops, fetch, mail>>

\* The SendOptions main() passes, lines 498-505.
sendOptions ==
    [to |-> <<"to@x">>, subject |-> <<"subj">>, body |-> Trim(cli.inv.stdin),
     inReplyTo |-> opts.inReplyTo, references |-> opts.references,
     quotedMessage |-> opts.quotedMessage]

\* sendEmail, lines 358-405: validateSmtpConfig, the transporter, mailOptions.
SendPrepare ==
    /\ pc = "sendEmail"
    /\ IF validateSmtpConfig(env)
       THEN /\ mail' = <<mailOptions(sendOptions, env)>>
            /\ pc' = "sendMail"
            /\ UNCHANGED out
       ELSE /\ Exit1("SMTP_USER and SMTP_PASS environment variables required")
            /\ UNCHANGED mail
    /\ UNCHANGED <<qp, th, mime, env, cli, imap, ops, fetch, opts>>

\* A slip of SendMail: a failed send is tried a second time.
SendMailRetry ==
    /\ pc = "sendMail"
    /\ \E ok \in BOOLEAN :
        /\ Issue("sendMail", ok)
        /\ IF ok THEN pc' = "done" /\ out' = [out EXCEPT !.exit = 0]
           ELSE /\ pc' = IF \E i \in 1..Len(ops) : ops[i].op = "sendMail"
                         THEN "catch" ELSE "sendMail"
                /\ UNCHANGED out
    /\ UNCHANGED <<qp, th, mime, env, cli, imap, fetch, opts, mail>>

\* Lines 407-410: await transporter.sendMail(mailOptions), once; a failure
\* is thrown to main().catch.
SendMail ==
    /\ pc = "sendMail"
    /\ \E ok \in BOOLEAN :
        /\ Issue("sendMail", ok)
        /\ IF ok THEN pc' = "done" /\ out' = [out EXCEPT !.exit = 0]
           ELSE pc' = "catch" /\ UNCHANGED out
    /\ UNCHANGED <<qp, th, mime, env, cli, imap, fetch, opts, mail>>

\* Lines 508-514: main().catch: "Failed: ..." and process.exit(1).  The
\* verbose flag only adds debug output and is left out throughout.
MainCatch ==
    /\ pc = "catch"
    /\ Exit1("Failed")
    /\ UNCHANGED <<qp, th, mime, env, cli, imap, ops, fetch, opts, mail>>

Next ==
    \/ MainLoadConfig
    \/ MainArgs
    \/ FetchValidate
    \/ FetchConnect
    \/ FetchLock
    \/ FetchSearch
    \/ FetchOne
    \/ FetchFinally
    \/ MainFetched
    \/ SendPrepare
    \/ SendMail
    \/ MainCatch

Spec == Init /\ [][Next]_vars

-----------------------------------------------------------------------------
(* Claims about one invocation.                                            *)

\* The operations of this name issued so far.
Issued(op) == SelectSeq(ops, LAMBDA o : o.op = op)
Failed(op) == \E i \in 1..Len(ops) : ops[i].op = op /\ ~ops[i].ok

\* The fetch code path has been left: fetchMessageById returned or threw.
LeftFetch == pc \in {"catch", "fetched", "sendEmail", "sendMail", "done", "exited"}

\* C1: once client.connect has succeeded, logout has been called by the
\* time fetchMessageById is left, however it is left.
C1_LogoutBeforeLeaving == imap.connected /\ LeftFetch => imap.loggedOut

C3_ThreadingHeaders ==
    mail # <<>> /\ Truthy(opts.inReplyTo) =>
        LET irt == opts.inReplyTo[1]
            refs == mail[1].references[1]
        IN  /\ mail[1].inReplyTo = Some(irt)
            /\ mail[1].references # None
            /\ SubSeq(refs, Len(refs) - Len(irt) + 1, Len(refs)) = irt
            /\ IF Truthy(opts.references)
               THEN LET n == Len(opts.references[1])
                    IN  /\ Len(refs) = n + 1 + Len(irt)
                        /\ SubSeq(refs, 1, n) = opts.references[1]
                        /\ refs[n + 1] = " "
               ELSE refs = irt

\* C3: mailOptions built from typed references and a typed in-reply-to.
C3_Witness ==
    /\ mail # <<>>
    /\ opts.inReplyTo = Some(IdTyped)
    /\ opts.references = Some(RefsTyped)

\* C6: a missing credential ends the process before any network operation
\* has been issued.
C6_ConfigErrorBeforeNetwork ==
    /\ pc = "exited"
    /\ out.stderr \in {"SMTP_USER and SMTP_PASS environment variables required",
                       "IMAP_USER and IMAP_PASS environment variables required"}
    => ops = <<>>

\* C7: sendMail is issued at most once, and a failed send ends in
\* main().catch: "Failed", exit status 1.
C7_SingleSend ==
    /\ Len(Issued("sendMail")) <= 1
    /\ Failed("sendMail") =>
        /\ pc \in {"catch", "exited"}
        /\ pc = "exited" => out = [stderr |-> "Failed", exit |-> 1]

\* C7: the process has ended after a failed send.
C7_Witness == pc = "exited" /\ Failed("sendMail")

\* The fixed document template: what precedes and what follows the body.
DocumentHead ==
    <<"<!DOCTYPE html>", LF, "<html>", LF, "<head>", LF,
      "  <meta charset=\"utf-8\">", LF, "</head>", LF,
      "<body style=\"font-family: -apple-system, BlinkMacSystemFont, 'Segoe UI', Roboto, sans-serif; font-size: 14px; line-height: 1.5; color: #333;\">",
      LF>>
DocumentTail == <<LF, "</body>", LF, "</html>">>

\* The opening tag of the quote block.
BlockquoteOpen ==
    "<blockquote type=\"cite\" style=\"margin: 0.5em 0; padding-left: 1em; border-left: 2px solid #ccc;\">"

\* The user's input as it stands in the document: as typed when it is
\* HTML; else escaped and line-break-converted, inside a div or bare.
UserPart(body, inDiv) ==
    IF isHtml(body) THEN body
    ELSE IF inDiv THEN <<"<div>">> \o textToHtml(body) \o <<"</div>">>
    ELSE textToHtml(body)

\* The quote block on a line of its own, when a message is quoted.
QuotePart ==
    IF opts.quotedMessage # <<>>
    THEN <<LF>> \o formatHtmlQuote(opts.quotedMessage[1])
    ELSE <<>>

\* C11 as stated: the HTML handed to the transport is the template around
\* the input as typed when isHtml detects HTML, else around the bare
\* escaped and line-break-converted input, followed by the quote block if
\* and only if a message is quoted.
C11_BareConvertedInput ==
    mail # <<>> =>
        mail[1].html = DocumentHead \o UserPart(Trim(cli.inv.stdin), FALSE)
                           \o QuotePart \o DocumentTail

\* C11: the HTML handed to the transport is the template around the input
\* as typed when isHtml detects HTML, else around a div element holding
\* the escaped and line-break-converted input; the quote block follows the
\* input, and stands in the document, if and only if a message is quoted.
C11_DocumentBody ==
    mail # <<>> =>
        /\ mail[1].html = DocumentHead \o UserPart(Trim(cli.inv.stdin), TRUE)
                              \o QuotePart \o DocumentTail
        /\ Includes(mail[1].html, BlockquoteOpen) <=> opts.quotedMessage # <<>>

\* C11: a document built from a plain text input and a quoted message.
C11_Witness ==
    /\ mail # <<>>
    /\ ~isHtml(Trim(cli.inv.stdin))
    /\ opts.quotedMessage # <<>>
    /\ \E i \in 1..Len(mail[1].html) : MatchAt(mail[1].html, i, Br)

\* What the quote block of a document holds between its opening line and
\* its closing line.
QuotedContent(html) ==
    LET i == CHOOSE k \in 1..Len(html) : html[k] = BlockquoteOpen
    IN  SubSeq(html, i + 2, Len(html) - Len(DocumentTail) - 2)

\* C12: quoting a message whose body is the empty string and whose html is
\* undefined yields a document whose quote block holds "(no content)";
\* any other message is quoted by its html when it has one, else by its
\* plain text converted to HTML.
C12_NoContentPlaceholder ==
    mail # <<>> /\ opts.quotedMessage # <<>> =>
        LET msg == opts.quotedMessage[1]
        IN  QuotedContent(mail[1].html) =
                IF msg.body = <<>> /\ msg.html = None THEN <<"(no content)">>
                ELSE IF msg.html # None THEN msg.html[1]
                ELSE textToHtml(msg.body)

\* The names of the operations issued so far, in the order of issue.
OpNames == [i \in 1..Len(ops) |-> ops[i].op]

IsPrefix(a, b) == Len(a) <= Len(b) /\ a = SubSeq(b, 1, Len(a))

\* The store operations of a retrieval, with and without a fetch.
RetrievalWithFetch ==
    <<"connect", "getMailboxLock", "search", "fetchOne", "release", "logout">>
RetrievalWithoutFetch ==
    <<"connect", "getMailboxLock", "search", "release", "logout">>

\* The mailbox lock is held after the first i operations.
LockHeldAfter(i) ==
    /\ \E j \in 1..i : ops[j].op = "getMailboxLock" /\ ops[j].ok
    /\ \A j \in 1..i : ops[j].op # "release"

\* C14: the operations issued are, in this order, connect, getMailboxLock,
\* search, fetchOne (only after a search that matched), release, logout,
\* each at most once and each ended before the next is issued, then at
\* most a sendMail; search and fetchOne are issued only while the mailbox
\* lock is held, and on the retrieval path sendMail comes only after
\* logout.
C14_RetrievalOrder ==
    /\ \/ IsPrefix(OpNames, RetrievalWithFetch \o <<"sendMail">>)
       \/ IsPrefix(OpNames, RetrievalWithoutFetch)
       \/ OpNames = <<"sendMail">>
    /\ \A i \in 2..Len(ops) :
           ops[i].op \in {"getMailboxLock", "search", "fetchOne", "sendMail"}
               => \A j \in 1..(i - 1) : ops[j].ok
    /\ Issued("fetchOne") # <<>> => fetch.search = "found"
    /\ \A i \in 1..Len(ops) :
           ops[i].op \in {"search", "fetchOne"} => LockHeldAfter(i - 1)
    /\ pc \in {"search", "fetchOne"} => imap.lock
    /\ pc \in {"sendEmail", "sendMail"} /\ Truthy(cli.inv.quoteMessageId)
           => imap.loggedOut /\ ~imap.lock
    /\ Issued("sendMail") # <<>> /\ Truthy(cli.inv.quoteMessageId)
           => Issued("logout") # <<>>

\* C14: a reply that quotes a found message has been sent.
C14_Witness ==
    /\ pc = "done"
    /\ OpNames = RetrievalWithFetch \o <<"sendMail">>

\* The lines of the config file that set this key.
FileLinesOf(key) == SelectSeq(cli.file.lines, LAMBDA l : l.key = key)

\* C15: config resolution leaves every key that is set in the environment
\* as it is, and gives every key that is not set there and is set in the
\* config file its value from the file, key by key.
C15_PerKeyResolution ==
    [][pc = "loadConfig" =>
          \A key \in Keys :
              /\ env[key] # "" => env'[key] = env[key]
              /\ env[key] = "" /\ cli.file.exists /\ FileLinesOf(key) # <<>>
                     => env'[key] = FileLinesOf(key)[1].value]_vars

\* C16: with --quote-message-id given and the message found, sendEmail is
\* passed inReplyTo = the quote Message-ID as typed and references = the
\* In-Reply-To of the fetched message, whatever --in-reply-to and
\* --references were typed; the outgoing In-Reply-To is the quote ID and
\* the outgoing References is the original's In-Reply-To, one space, the
\* quote ID, or the quote ID alone when the original has none.
C16_QuoteThreading ==
    Truthy(cli.inv.quoteMessageId) /\ pc \in {"sendEmail", "sendMail", "done"} =>
        LET quoteId == cli.inv.quoteMessageId[1]
            parent == fetch.msg[1].envelope.inReplyTo
        IN  /\ sendOptions.inReplyTo = Some(quoteId)
            /\ sendOptions.references = parent
            /\ mail # <<>> =>
                   /\ mail[1].inReplyTo = Some(quoteId)
                   /\ mail[1].references =
                          IF Truthy(parent)
                          THEN Some(parent[1] \o <<" ">> \o quoteId)
                          ELSE Some(quoteId)

\* C16: a quoting reply with typed --in-reply-to and --references, to a
\* message that has an In-Reply-To of its own, is ready to be sent.
C16_Witness ==
    /\ pc = "sendMail"
    /\ Truthy(cli.inv.quoteMessageId)
    /\ cli.inv.inReplyTo = Some(IdTyped)
    /\ cli.inv.references = Some(RefsTyped)
    /\ fetch.msg # <<>>
    /\ fetch.msg[1].envelope.inReplyTo = Some(IdParent)
    /\ mail # <<>>

=============================================================================
